---- MODULE Spec2Model ----
(***************************************************************************)
(* Model of the payment service facade of lgoenaga/solid_principies.       *)
(* Three variant files are modelled: isp/after.py, liskov/after.py and     *)
(* open_close/after.py.  A PaymentService is composed once (svc) and then  *)
(* serves calls one at a time; every call is modelled stage by stage so    *)
(* that the order of the stages and their effects (gateway calls,          *)
(* notifications, lines of transactions.log) can be observed.              *)
(***************************************************************************)
EXTENDS Integers, Sequences, FiniteSets, TLC

VARIABLES
    svc,            \* the composed PaymentService (fields fixed at construction)
    pc,             \* position inside the current call, "idle" between calls
    op,             \* facade method of the current / last call
    customer_data,  \* argument of the current call
    payment_data,   \* argument of the current call
    transaction_id, \* argument of refund_payment
    charge,         \* local variable charge / response, <<>> is Python None
    stages,         \* stages the current call has entered, in order
    sent,           \* messages handed to the notification transports by the call
    gateway,        \* requests the call has made to the payment gateway
    result,         \* what the call gave back to its caller
    log,            \* lines of transactions.log
    logAtCall,      \* transactions.log as it was when the current call began
    calls           \* number of calls begun

vars == <<svc, pc, op, customer_data, payment_data, transaction_id, charge,
          stages, sent, gateway, result, log, logAtCall, calls>>

\* ---------------------------------------------------------------- bounds
MaxCalls == 2

\* ---------------------------------------------------------------- values
\* Python None for Optional[str] fields; str(None) is "None"
None == "None"

\* Python None for object-valued names is the empty tuple, Some(x) is <<x>>
NoneObj == <<>>

Some(x) == <<x>>

\* truthiness of an Optional[str]
Truthy(s) == s # None /\ s # ""

Names == {"", "John Doe"}

Emails == {None, "", "example@mail.com"}

Phones == {None, "", "1234567890"}

Amounts == {-1, 0, 500}

Sources == {"", "tok_mastercard"}

TransactionIds == {"ch_1", "ch_2"}

\* identifiers the gateway hands out for charges and subscriptions
GatewayIds == {"ch_1"}

\* identifiers uuid.uuid4() may produce
Uuids == {"uuid_1", "uuid_2"}

\* messages of the gateway's StripeError
GatewayErrors == {"Your card was declined."}

\* unit_amount of the price the subscription is created with
UnitPrices == {1500}

\* ---------------------------------------------------------------- data model
ContactInfo(email, phone) == [email |-> email, phone |-> phone]

CustomerData(name, contact_info) == [name |-> name, contact_info |-> contact_info]

PaymentData(amount, source) == [amount |-> amount, source |-> source]

PaymentResponse(status, amount, id, message) ==
    [status |-> status, amount |-> amount, id |-> id, message |-> message]

ContactInfos == {ContactInfo(e, p) : e \in Emails, p \in Phones}

\* contact_info is declared required, an attribute assignment can still make it None
Customers == {CustomerData(n, c) : n \in Names, c \in {NoneObj} \cup {Some(ci) : ci \in ContactInfos}}

Payments == {PaymentData(a, s) : a \in Amounts, s \in Sources}

NoCustomer == CustomerData("", NoneObj)

NoPayment == PaymentData(0, "")

\* outcome of a Python call: a returned value or a raised exception
Return(value) == [kind |-> "return", value |-> value, type |-> "", msg |-> ""]

Raise(type, msg) == [kind |-> "raise", value |-> NoneObj, type |-> type, msg |-> msg]

NoResult == [kind |-> "none", value |-> NoneObj, type |-> "", msg |-> ""]

Returned(value) == [kind |-> "returned", value |-> value, type |-> "", msg |-> ""]

Raised(o) == [kind |-> "raised", value |-> NoneObj, type |-> o.type, msg |-> o.msg]

\* ---------------------------------------------------------------- validator
\* validate_customer_data with "or" for "and" in the contact check
validate_customer_data_either(cd) ==
    IF ~Truthy(cd.name)
    THEN Raise("ValueError", "Invalid customer data: missing name")
    ELSE IF cd.contact_info = NoneObj
    THEN Raise("ValueError", "Invalid customer data: missing contact info")
    ELSE IF ~Truthy(cd.contact_info[1].email) \/ ~Truthy(cd.contact_info[1].phone)
    THEN Raise("ValueError", "Invalid customer data: missing email or phone")
    ELSE Return(NoneObj)

validate_customer_data(cd) ==
    IF ~Truthy(cd.name)
    THEN Raise("ValueError", "Invalid customer data: missing name")
    ELSE IF cd.contact_info = NoneObj
    THEN Raise("ValueError", "Invalid customer data: missing contact info")
    ELSE IF ~Truthy(cd.contact_info[1].email) /\ ~Truthy(cd.contact_info[1].phone)
    THEN Raise("ValueError", "Invalid customer data: missing email or phone")
    ELSE Return(NoneObj)

\* "not payment_data.amount" is true of 0 only, a negative amount is truthy
validate_payment_data(pd) ==
    IF pd.amount = 0 \/ pd.source = ""
    THEN Raise("ValueError", "Invalid payment data")
    ELSE Return(Some(TRUE))

\* ---------------------------------------------------------------- notifier
Message(channel, to) == [channel |-> channel, to |-> to]

\* isp/after.py and liskov/after.py: the messages EmailNotify hands to its transport
EmailNotify_notify_customer(cd) ==
    <<Message("email", cd.contact_info[1].email)>>

\* isp/after.py and liskov/after.py: the messages SMSNotify hands to its transport
SMSNotify_notify_customer(cd) ==
    <<Message("sms", cd.contact_info[1].phone)>>

\* open_close/after.py: the channel is chosen from the customer's contact data
NotifyCustomer_notify_customer(cd) ==
    IF Truthy(cd.contact_info[1].email)
    THEN <<Message("email", cd.contact_info[1].email)>>
    ELSE IF Truthy(cd.contact_info[1].phone)
    THEN <<Message("sms", cd.contact_info[1].phone)>>
    ELSE << >>

notify_customer(notifier, cd) ==
    CASE notifier = "EmailNotify" -> EmailNotify_notify_customer(cd)
      [] notifier = "SMSNotify" -> SMSNotify_notify_customer(cd)
      [] notifier = "NotifyCustomer" -> NotifyCustomer_notify_customer(cd)

\* ---------------------------------------------------------------- logger
\* one line of transactions.log: "<text> paid <num>", "Transaction ID: <text>",
\* "Status: <text>" or "Payment status: <text>"
Line(kind, text, num) == [kind |-> kind, text |-> text, num |-> num]

PaidLine(cd, pd) == Line("paid", cd.name, pd.amount)

\* what a call of the logger leaves behind: the lines written and how it ended
Logged(lines, outcome) == [lines |-> lines, outcome |-> outcome]

\* ISP_log_transaction writing the response's amount in the first line
ISP_log_transaction_response_amount(args) ==
    IF Len(args) # 3
    THEN Logged(<< >>, Raise("TypeError",
            "LogTransaction.log_transaction() missing 1 required positional argument: 'charge'"))
    ELSE IF args[3] = NoneObj
    THEN Logged(<<PaidLine(args[1], args[2])>>,
                Raise("AttributeError", "'NoneType' object has no attribute 'id'"))
    ELSE Logged(<<Line("paid", args[1].name, args[3][1].amount),
                  Line("Transaction ID", args[3][1].id, 0),
                  Line("Status", args[3][1].status, 0)>>,
                Return(NoneObj))

\* isp/after.py: args are the positional arguments after self; the facade
\* passes three, or two from refund_payment, and the interpreter (CPython 3.10
\* and later) words the TypeError of the two-argument call.  The file is closed
\* (and flushed) by the with block also when a write raises.
ISP_log_transaction(args) ==
    IF Len(args) # 3
    THEN Logged(<< >>, Raise("TypeError",
            "LogTransaction.log_transaction() missing 1 required positional argument: 'charge'"))
    ELSE IF args[3] = NoneObj
    THEN Logged(<<PaidLine(args[1], args[2])>>,
                Raise("AttributeError", "'NoneType' object has no attribute 'id'"))
    ELSE Logged(<<PaidLine(args[1], args[2]),
                  Line("Transaction ID", args[3][1].id, 0),
                  Line("Status", args[3][1].status, 0)>>,
                Return(NoneObj))

\* liskov/after.py and open_close/after.py
Liskov_log_transaction(args) ==
    Logged(<<PaidLine(args[1], args[2]),
             Line("Payment status", args[3][1].status, 0)>>,
           Return(NoneObj))

log_transaction(variant, args) ==
    IF variant = "isp" THEN ISP_log_transaction(args) ELSE Liskov_log_transaction(args)

\* ---------------------------------------------------------------- gateway
\* the payment gateway is external: each request either succeeds with an
\* identifier of the gateway's choosing or fails with a StripeError
GatewayOutcomes ==
    {[ok |-> TRUE, id |-> i, msg |-> ""] : i \in GatewayIds}
    \cup {[ok |-> FALSE, id |-> None, msg |-> m] : m \in GatewayErrors}

Request(api, ok) == [api |-> api, ok |-> ok]

\* stripe.Charge.create(amount, currency, source, description)
stripe_Charge_create(amount, g) ==
    IF g.ok
    THEN Return(Some(PaymentResponse("succeeded", amount, g.id, None)))
    ELSE Raise("StripeError", g.msg)

\* ---------------------------------------------------------------- charge executors
\* isp/after.py: a StripeError is turned into a failed response
ISP_process_transaction(cd, pd, g) ==
    LET c == stripe_Charge_create(pd.amount, g)
    IN  IF c.kind = "return"
        THEN Return(Some(PaymentResponse(c.value[1].status, c.value[1].amount,
                                         c.value[1].id, "Payment successful")))
        ELSE Return(Some(PaymentResponse("payment_failed", 0, None, c.msg)))

\* liskov/after.py: the gateway's charge is returned, a StripeError is re-raised
Liskov_process_transaction(cd, pd, g) ==
    stripe_Charge_create(pd.amount, g)

\* open_close/after.py: as in liskov/after.py
OpenClose_process_transaction(cd, pd, g) ==
    stripe_Charge_create(pd.amount, g)

\* the body "..." of the protocol's method: returns None
PaymentProcessorProtocol_process_transaction(cd, pd) ==
    Return(NoneObj)

\* OffLinePaymentProcessor defines process_payments, not process_transaction
OffLinePaymentProcessor_process_payments(cd, pd, uuid) ==
    Return(Some(PaymentResponse("offline_payment_processed", pd.amount, uuid,
                                "Offline payment processed successfully")))

\* what self.process_payment.process_transaction(customer_data, payment_data) does
process_transaction(service, cd, pd, g) ==
    CASE service.process_payment = "OffLinePaymentProcessor" ->
            PaymentProcessorProtocol_process_transaction(cd, pd)
      [] service.variant = "isp" -> ISP_process_transaction(cd, pd, g)
      [] service.variant = "liskov" -> Liskov_process_transaction(cd, pd, g)
      [] OTHER -> OpenClose_process_transaction(cd, pd, g)

refund_transaction(tid) ==
    Return(Some(PaymentResponse("payment_refunded", 0, tid, "Payment refunded successfully")))

\* the four gateway requests of setup_recurrence, in order
RecurrenceApis ==
    <<"Customer.create", "PaymentMethod.attach", "Customer.modify", "Subscription.create">>

\* how the gateway answers a recurrence setup: failAt = 0 when all four requests
\* succeed, otherwise the index of the request that raises StripeError
RecurrenceOutcomes ==
    {[failAt |-> 0, id |-> i, price |-> p, msg |-> ""] : i \in GatewayIds, p \in UnitPrices}
    \cup {[failAt |-> k, id |-> None, price |-> 0, msg |-> m] : k \in 1..4, m \in GatewayErrors}

\* the requests setup_recurrence makes under gateway answer r
RecurrenceRequests(cd, r) ==
    IF cd.contact_info = NoneObj THEN << >>
    ELSE [i \in 1..(IF r.failAt = 0 THEN 4 ELSE r.failAt) |->
             Request(RecurrenceApis[i], i # r.failAt)]

\* setup_recurrence answering with the requested amount
setup_recurrence_request_amount(cd, pd, r) ==
    IF cd.contact_info = NoneObj
    THEN Raise("AttributeError", "'NoneType' object has no attribute 'email'")
    ELSE IF r.failAt = 0
    THEN Return(Some(PaymentResponse("active", pd.amount, r.id, "Recurrence payment successful")))
    ELSE Return(Some(PaymentResponse("recurrence_payment_failed", 0, None, r.msg)))

setup_recurrence(cd, pd, r) ==
    IF cd.contact_info = NoneObj
    THEN Raise("AttributeError", "'NoneType' object has no attribute 'email'")
    ELSE IF r.failAt = 0
    THEN Return(Some(PaymentResponse("active", r.price, r.id, "Recurrence payment successful")))
    ELSE Return(Some(PaymentResponse("recurrence_payment_failed", 0, None, r.msg)))

\* ---------------------------------------------------------------- composition
\* PaymentService(...) of each file with the collaborators its fields admit
Services ==
    {[variant |-> "isp", process_payment |-> e, notify |-> n,
      refund_payment_processor |-> rf, recurrence_payment_processor |-> rc] :
        e \in {"ProcessPayment", "OffLinePaymentProcessor"},
        n \in {"EmailNotify", "SMSNotify"},
        rf \in {None, "ProcessPayment"}, rc \in {None, "ProcessPayment"}}
    \cup
    {[variant |-> "liskov", process_payment |-> "ProcessPayment", notify |-> n,
      refund_payment_processor |-> None, recurrence_payment_processor |-> None] :
        n \in {"EmailNotify", "SMSNotify"}}
    \cup
    {[variant |-> "open_close", process_payment |-> "ProcessPayment",
      notify |-> "NotifyCustomer",
      refund_payment_processor |-> None, recurrence_payment_processor |-> None]}

Init ==
    /\ svc \in Services
    /\ pc = "idle"
    /\ op = "none"
    /\ customer_data = NoCustomer
    /\ payment_data = NoPayment
    /\ transaction_id = None
    /\ charge = NoneObj
    /\ stages = << >>
    /\ sent = << >>
    /\ gateway = << >>
    /\ result = NoResult
    /\ log = << >>
    /\ logAtCall = << >>
    /\ calls = 0

\* a call begins: the per-call observations start afresh
Begin(method, first, pd, cd, tid) ==
    /\ pc = "idle"
    /\ calls < MaxCalls
    /\ calls' = calls + 1
    /\ op' = method
    /\ pc' = first
    /\ payment_data' = pd
    /\ customer_data' = cd
    /\ transaction_id' = tid
    /\ charge' = NoneObj
    /\ stages' = << >>
    /\ sent' = << >>
    /\ gateway' = << >>
    /\ result' = NoResult
    /\ logAtCall' = log
    /\ UNCHANGED <<svc, log>>

\* the call ends by raising o out of the facade method
Fail(o) ==
    /\ result' = Raised(o)
    /\ pc' = "done"

\* ---------------------------------------------------------------- process_payments
CallProcessPayments ==
    \E pd \in Payments, cd \in Customers :
        Begin("process_payments", "validate_customer", pd, cd, None)

ValidateCustomer ==
    /\ pc = "validate_customer"
    /\ stages' = Append(stages, "validate_customer")
    /\ LET o == validate_customer_data(customer_data)
       IN  IF o.kind = "raise" THEN Fail(o)
           ELSE pc' = "validate_payment" /\ result' = result
    /\ UNCHANGED <<svc, op, customer_data, payment_data, transaction_id, charge,
                   sent, gateway, log, logAtCall, calls>>

\* ValidatePayment with the validator's error swallowed
ValidatePayment_swallow ==
    /\ pc = "validate_payment"
    /\ stages' = Append(stages, "validate_payment")
    /\ pc' = "charge"
    /\ UNCHANGED <<svc, op, customer_data, payment_data, transaction_id, charge,
                   sent, gateway, result, log, logAtCall, calls>>

ValidatePayment ==
    /\ pc = "validate_payment"
    /\ stages' = Append(stages, "validate_payment")
    /\ LET o == validate_payment_data(payment_data)
       IN  IF o.kind = "raise" THEN Fail(o)
           ELSE pc' = "charge" /\ result' = result
    /\ UNCHANGED <<svc, op, customer_data, payment_data, transaction_id, charge,
                   sent, gateway, log, logAtCall, calls>>

Charge ==
    /\ pc = "charge"
    /\ stages' = Append(stages, "charge")
    /\ \E g \in GatewayOutcomes :
        LET o == process_transaction(svc, customer_data, payment_data, g)
        IN  /\ gateway' = IF svc.process_payment = "ProcessPayment"
                          THEN Append(gateway, Request("Charge.create", g.ok))
                          ELSE gateway
            /\ IF o.kind = "raise"
               THEN Fail(o) /\ charge' = charge
               ELSE pc' = "notify" /\ charge' = o.value /\ result' = result
    /\ UNCHANGED <<svc, op, customer_data, payment_data, transaction_id,
                   sent, log, logAtCall, calls>>

Notify ==
    /\ pc = "notify"
    /\ stages' = Append(stages, "notify")
    /\ sent' = sent \o notify_customer(svc.notify, customer_data)
    /\ pc' = "log"
    /\ UNCHANGED <<svc, op, customer_data, payment_data, transaction_id, charge,
                   gateway, result, log, logAtCall, calls>>

LogStage ==
    /\ pc = "log"
    /\ stages' = Append(stages, "log")
    /\ LET l == log_transaction(svc.variant, <<customer_data, payment_data, charge>>)
       IN  /\ log' = log \o l.lines
           /\ IF l.outcome.kind = "raise" THEN Fail(l.outcome)
              ELSE pc' = "return" /\ result' = result
    /\ UNCHANGED <<svc, op, customer_data, payment_data, transaction_id, charge,
                   sent, gateway, logAtCall, calls>>

\* ReturnCharge with the return statement forgotten: the caller gets None
ReturnCharge_none ==
    /\ pc = "return"
    /\ stages' = Append(stages, "return")
    /\ result' = Returned(NoneObj)
    /\ pc' = "done"
    /\ UNCHANGED <<svc, op, customer_data, payment_data, transaction_id, charge,
                   sent, gateway, log, logAtCall, calls>>

ReturnCharge ==
    /\ pc = "return"
    /\ stages' = Append(stages, "return")
    /\ result' = Returned(charge)
    /\ pc' = "done"
    /\ UNCHANGED <<svc, op, customer_data, payment_data, transaction_id, charge,
                   sent, gateway, log, logAtCall, calls>>

\* ---------------------------------------------------------------- refund_payment
CallRefundPayment ==
    /\ svc.variant = "isp"
    /\ \E tid \in TransactionIds :
        Begin("refund_payment", "refund_check", NoPayment, NoCustomer, tid)

RefundCheck ==
    /\ pc = "refund_check"
    /\ stages' = Append(stages, "check")
    /\ IF svc.refund_payment_processor = None
       THEN Fail(Raise("Exception", "Refund payment processor not supported"))
       ELSE pc' = "refund_execute" /\ result' = result
    /\ UNCHANGED <<svc, op, customer_data, payment_data, transaction_id, charge,
                   sent, gateway, log, logAtCall, calls>>

RefundExecute ==
    /\ pc = "refund_execute"
    /\ stages' = Append(stages, "refund")
    /\ charge' = refund_transaction(transaction_id).value
    /\ pc' = "refund_log"
    /\ UNCHANGED <<svc, op, customer_data, payment_data, transaction_id,
                   sent, gateway, result, log, logAtCall, calls>>

\* log_transaction(transaction_id, response): two arguments for three parameters,
\* so the call always raises and "return response" is never reached
RefundLog ==
    /\ pc = "refund_log"
    /\ stages' = Append(stages, "log")
    /\ LET l == log_transaction(svc.variant, <<transaction_id, charge>>)
       IN  /\ log' = log \o l.lines
           /\ Fail(l.outcome)
    /\ UNCHANGED <<svc, op, customer_data, payment_data, transaction_id, charge,
                   sent, gateway, logAtCall, calls>>

\* ---------------------------------------------------------------- setup_recurrence_payment
CallSetupRecurrencePayment ==
    /\ svc.variant = "isp"
    /\ \E pd \in Payments, cd \in Customers :
        Begin("setup_recurrence_payment", "recurrence_check", pd, cd, None)

RecurrenceCheck ==
    /\ pc = "recurrence_check"
    /\ stages' = Append(stages, "check")
    /\ IF svc.recurrence_payment_processor = None
       THEN Fail(Raise("Exception", "Recurrence payment processor not supported"))
       ELSE pc' = "recurrence_execute" /\ result' = result
    /\ UNCHANGED <<svc, op, customer_data, payment_data, transaction_id, charge,
                   sent, gateway, log, logAtCall, calls>>

RecurrenceExecute ==
    /\ pc = "recurrence_execute"
    /\ stages' = Append(stages, "setup_recurrence")
    /\ \E r \in RecurrenceOutcomes :
        LET o == setup_recurrence(customer_data, payment_data, r)
        IN  /\ gateway' = gateway \o RecurrenceRequests(customer_data, r)
            /\ IF o.kind = "raise"
               THEN Fail(o) /\ charge' = charge
               ELSE pc' = "recurrence_log" /\ charge' = o.value /\ result' = result
    /\ UNCHANGED <<svc, op, customer_data, payment_data, transaction_id,
                   sent, log, logAtCall, calls>>

RecurrenceLog ==
    /\ pc = "recurrence_log"
    /\ stages' = Append(stages, "log")
    /\ LET l == log_transaction(svc.variant, <<customer_data, payment_data, charge>>)
       IN  /\ log' = log \o l.lines
           /\ IF l.outcome.kind = "raise" THEN Fail(l.outcome)
              ELSE pc' = "recurrence_return" /\ result' = result
    /\ UNCHANGED <<svc, op, customer_data, payment_data, transaction_id, charge,
                   sent, gateway, logAtCall, calls>>

RecurrenceReturn ==
    /\ pc = "recurrence_return"
    /\ stages' = Append(stages, "return")
    /\ result' = Returned(charge)
    /\ pc' = "done"
    /\ UNCHANGED <<svc, op, customer_data, payment_data, transaction_id, charge,
                   sent, gateway, log, logAtCall, calls>>

\* ---------------------------------------------------------------- the offline processor called directly
\* isp/after.py line 278: OffLinePaymentProcessor().process_payments(customer, payment)
CallOffLineProcessPayments ==
    /\ svc.variant = "isp"
    /\ pc = "idle"
    /\ calls < MaxCalls
    /\ \E pd \in Payments, cd \in Customers, u \in Uuids :
        /\ payment_data' = pd
        /\ customer_data' = cd
        /\ charge' = OffLinePaymentProcessor_process_payments(cd, pd, u).value
        /\ result' = Returned(charge')
    /\ calls' = calls + 1
    /\ op' = "offline_process_payments"
    /\ pc' = "done"
    /\ transaction_id' = None
    /\ stages' = <<"offline">>
    /\ sent' = << >>
    /\ gateway' = << >>
    /\ logAtCall' = log
    /\ UNCHANGED <<svc, log>>

\* ---------------------------------------------------------------- between calls
\* the caller has its answer; arguments, locals and the response are not kept
\* by the service, only transactions.log outlives the call
EndCall ==
    /\ pc = "done"
    /\ pc' = "idle"
    /\ op' = "none"
    /\ customer_data' = NoCustomer
    /\ payment_data' = NoPayment
    /\ transaction_id' = None
    /\ charge' = NoneObj
    /\ stages' = << >>
    /\ sent' = << >>
    /\ gateway' = << >>
    /\ result' = NoResult
    /\ logAtCall' = log
    /\ UNCHANGED <<svc, log, calls>>

Next ==
    \/ CallProcessPayments
    \/ ValidateCustomer
    \/ ValidatePayment
    \/ Charge
    \/ Notify
    \/ LogStage
    \/ ReturnCharge
    \/ CallRefundPayment
    \/ RefundCheck
    \/ RefundExecute
    \/ RefundLog
    \/ CallSetupRecurrencePayment
    \/ RecurrenceCheck
    \/ RecurrenceExecute
    \/ RecurrenceLog
    \/ RecurrenceReturn
    \/ CallOffLineProcessPayments
    \/ EndCall

Spec == Init /\ [][Next]_vars

TypeOK ==
    /\ svc \in Services
    /\ calls \in 0..MaxCalls
    /\ result.kind \in {"none", "returned", "raised"}
    /\ (pc = "done") = (result.kind # "none")
    /\ Len(log) >= Len(logAtCall)

\* ================================================================ properties
\* a finished call of process_payments
DoneProcessPayments == op = "process_payments" /\ pc = "done"

\* the validator rejects the arguments of the current call
CustomerRejected == validate_customer_data(customer_data).kind = "raise"

PaymentRejected == validate_payment_data(payment_data).kind = "raise"

InvalidRequest == CustomerRejected \/ PaymentRejected

\* the stage names occurring in the current call
StageSet == {stages[i] : i \in 1..Len(stages)}

IsPrefix(a, b) == Len(a) <= Len(b) /\ \A i \in 1..Len(a) : a[i] = b[i]

NoEffects == gateway = << >> /\ sent = << >> /\ log = logAtCall

\* the gateway refused the charge of the current call
ChargeRejected == gateway = <<Request("Charge.create", FALSE)>>

\* ---------------------------------------------------------------- C1
\* C1: in every variant, when validate_customer_data or validate_payment_data
\* fails, process_payments re-raises that error to the caller and neither the
\* charge executor nor the notifier nor the logger is invoked for the call:
\* no gateway request, no notification, no line added to transactions.log.
C1_InvalidRequestHasNoEffect ==
    (op = "process_payments" /\ InvalidRequest) =>
        /\ StageSet \subseteq {"validate_customer", "validate_payment"}
        /\ NoEffects
        /\ charge = NoneObj
        /\ pc \in {"validate_customer", "validate_payment", "done"}
        /\ pc = "done" =>
              result = Raised(IF CustomerRejected
                              THEN validate_customer_data(customer_data)
                              ELSE validate_payment_data(payment_data))

\* a call with a valid customer and an invalid payment has been refused
C1_Witness ==
    /\ DoneProcessPayments
    /\ ~CustomerRejected
    /\ PaymentRejected
    /\ stages = <<"validate_customer", "validate_payment">>
    /\ result.kind = "raised"
    /\ result.type = "ValueError"

\* ---------------------------------------------------------------- C2
Pipeline == <<"validate_customer", "validate_payment", "charge", "notify", "log", "return">>

\* position of a stage in the pipeline
StageIndex(stage) == CHOOSE i \in 1..Len(Pipeline) : Pipeline[i] = stage

\* C2: a call of process_payments enters its stages in the order validate
\* customer, validate payment, charge, notify, log, return, each at most once
\* and each only after all its predecessors have completed; a call whose inputs
\* pass validation and whose collaborators do not raise returns, has gone
\* through every stage exactly once (one gateway charge, one notification, one
\* log record) and hands back the very response the charge executor produced.
C2_StagesInOrder ==
    op = "process_payments" =>
        /\ IsPrefix(stages, Pipeline)
        /\ pc # "done" => stages = SubSeq(Pipeline, 1, StageIndex(pc) - 1)
        /\ (pc = "done" /\ result.kind = "returned") =>
              /\ stages = Pipeline
              /\ ~InvalidRequest
              /\ charge # NoneObj
              /\ result.value = charge
              /\ Len(gateway) = 1
              /\ Len(sent) = 1
              /\ IsPrefix(logAtCall, log)
              /\ Len(log) - Len(logAtCall) = (IF svc.variant = "isp" THEN 3 ELSE 2)
        /\ (pc = "done" /\ ~InvalidRequest /\ result.kind = "raised") =>
              result.type \in {"StripeError", "AttributeError"}

\* a valid call has gone through the whole pipeline and returned the charge
C2_Witness ==
    /\ DoneProcessPayments
    /\ result.kind = "returned"
    /\ stages = Pipeline
    /\ result.value[1].status = "succeeded"
    /\ result.value[1].amount = 500

\* ---------------------------------------------------------------- C3
\* the arguments of the current call are valid as the data model has it: the
\* validator accepts them and the amount is positive
ValidRequest == ~InvalidRequest /\ payment_data.amount > 0

\* C3: for valid input, a gateway rejection during the charge never raises out
\* of process_payments: the call returns a response with status "failed" and
\* amount 0, with the gateway-backed executor of every variant file.
C3_GatewayRejectionNeverRaises ==
    (DoneProcessPayments /\ ValidRequest /\ ChargeRejected) =>
        /\ result.kind = "returned"
        /\ result.value[1].status = "failed"
        /\ result.value[1].amount = 0

\* ---------------------------------------------------------------- C4
\* C4: refund_payment on a service without refund executor raises the capability
\* error with no partial effect (executor not called, nothing logged); with a
\* refund executor it returns a response with status "refunded" whose id is the
\* given transaction_id, and the refund is logged.
C4_Refund ==
    (op = "refund_payment" /\ pc = "done") =>
        IF svc.refund_payment_processor = None
        THEN /\ result.kind = "raised"
             /\ result.msg = "Refund payment processor not supported"
             /\ stages = <<"check">>
             /\ charge = NoneObj
             /\ log = logAtCall
        ELSE /\ result.kind = "returned"
             /\ result.value[1].status = "refunded"
             /\ result.value[1].id = transaction_id
             /\ Len(log) > Len(logAtCall)

\* ---------------------------------------------------------------- C5
\* C5: validate_payment_data fails with a validation error exactly for the
\* PaymentData with amount <= 0 or an empty source, and passes for amount > 0
\* with a non-empty source.
C5_ValidatePayment ==
    (op = "process_payments" /\ "validate_payment" \in StageSet) =>
        ((payment_data.amount <= 0 \/ payment_data.source = "")
            <=> (pc = "done" /\ stages = <<"validate_customer", "validate_payment">>
                 /\ result.kind = "raised" /\ result.type = "ValueError"))

\* ---------------------------------------------------------------- C6
\* the customer data the claim calls invalid
CustomerLacksData ==
    \/ customer_data.name = ""
    \/ customer_data.contact_info = NoneObj
    \/ /\ customer_data.contact_info[1].email \in {None, ""}
       /\ customer_data.contact_info[1].phone \in {None, ""}

\* C6: validate_customer_data fails with a validation error for every
\* CustomerData with an empty name, an absent contact_info, or email and phone
\* both empty or absent; for every CustomerData with a name and at least one of
\* email and phone it returns without raising and without any other effect.
C6_ValidateCustomer ==
    (op = "process_payments" /\ "validate_customer" \in StageSet) =>
        IF CustomerLacksData
        THEN /\ pc = "done"
             /\ stages = <<"validate_customer">>
             /\ result.kind = "raised"
             /\ result.type = "ValueError"
             /\ NoEffects
        ELSE stages = <<"validate_customer">> =>
                  /\ pc = "validate_payment"
                  /\ result = NoResult
                  /\ NoEffects
                  /\ charge = NoneObj

\* the validator has accepted a customer who has a phone but no email
C6_Witness ==
    /\ op = "process_payments"
    /\ pc = "validate_payment"
    /\ stages = <<"validate_customer">>
    /\ customer_data.contact_info[1].email = None
    /\ customer_data.contact_info[1].phone = "1234567890"

\* ---------------------------------------------------------------- C7
\* C7: a PaymentService built with OffLinePaymentProcessor as charge executor
\* completes process_payments for every valid input without raising, runs
\* notify and log, and returns a response with status "offline-processed", the
\* requested amount and a generated identifier.
C7_OfflineInterchangeable ==
    (DoneProcessPayments /\ svc.process_payment = "OffLinePaymentProcessor"
        /\ ~InvalidRequest) =>
        /\ result.kind = "returned"
        /\ result.value[1].status = "offline-processed"
        /\ result.value[1].amount = payment_data.amount
        /\ result.value[1].id \in Uuids
        /\ Len(sent) = 1
        /\ Len(log) > Len(logAtCall)

\* ---------------------------------------------------------------- C8
\* a finished call of setup_recurrence_payment
DoneRecurrence == op = "setup_recurrence_payment" /\ pc = "done"

\* the gateway created the subscription / refused one of the four requests
SubscriptionCreated == Len(gateway) = 4 /\ gateway[4].ok

RecurrenceRejected == Len(gateway) >= 1 /\ ~gateway[Len(gateway)].ok

\* the lines the current call has added to transactions.log
NewLines == SubSeq(log, Len(logAtCall) + 1, Len(log))

\* setup_recurrence_payment as the claim describes it, failedStatus being the
\* status of the response for a gateway error
RecurrenceContract(failedStatus) ==
    DoneRecurrence =>
        IF svc.recurrence_payment_processor = None
        THEN /\ result.kind = "raised"
             /\ result.msg = "Recurrence payment processor not supported"
             /\ stages = <<"check">>
             /\ NoEffects
        ELSE /\ SubscriptionCreated =>
                  /\ result.kind = "returned"
                  /\ result.value = charge
                  /\ result.value[1].amount \in UnitPrices
                  /\ result.value[1].amount # payment_data.amount
                  /\ IsPrefix(logAtCall, log)
                  /\ Len(NewLines) = 3
                  /\ NewLines[1] = PaidLine(customer_data, payment_data)
             /\ RecurrenceRejected =>
                  /\ result.kind = "returned"
                  /\ result.value[1].status = failedStatus
                  /\ result.value[1].amount = 0

\* C8 as stated: without recurrence executor setup_recurrence_payment raises the
\* capability error before any gateway request or log write; with one, and a
\* gateway that creates the subscription at unit price p, it returns the
\* executor's response with amount p whatever the requested amount and appends
\* one log record; a gateway error is returned as a response with status
\* "recurrence-failed" and amount 0.
C8_Original == RecurrenceContract("recurrence-failed")

\* C8 amended: the same, the status of the response for a gateway error being
\* "recurrence_payment_failed".
C8_Recurrence == RecurrenceContract("recurrence_payment_failed")

\* a recurrence was set up at the subscription's unit price, not the requested amount
C8_Witness ==
    /\ DoneRecurrence
    /\ SubscriptionCreated
    /\ payment_data.amount = 500
    /\ result.kind = "returned"
    /\ result.value[1].amount = 1500

\* ---------------------------------------------------------------- C9
\* the logger's body ran in the current call (a call rejected for its
\* arguments never enters the logger)
LoggerRan == "log" \in StageSet /\ result.type # "TypeError"

\* one complete record of the current call: customer name and requested
\* amount, then identifier and/or status of the call's response
CompleteRecord(lines) ==
    /\ Len(lines) \in {2, 3}
    /\ lines[1] = PaidLine(customer_data, payment_data)
    /\ charge # NoneObj
    /\ \A i \in 2..Len(lines) :
          \/ lines[i] = Line("Transaction ID", charge[1].id, 0)
          \/ lines[i] = Line("Status", charge[1].status, 0)
          \/ lines[i] = Line("Payment status", charge[1].status, 0)

\* C9: transactions.log is append-only: a call never removes, rewrites or
\* reorders an earlier line, a call that reaches the logger appends exactly one
\* record (name and requested amount, then identifier and/or status of its
\* response), and a call that fails before the logging stage leaves the log
\* unchanged.
C9_AppendOnlyLog ==
    /\ IsPrefix(logAtCall, log)
    /\ "log" \notin StageSet => log = logAtCall
    /\ pc = "done" =>
          IF LoggerRan THEN CompleteRecord(NewLines) ELSE log = logAtCall

\* ---------------------------------------------------------------- C10
\* the one SMS the current call owes its customer
SmsToCustomer == <<Message("sms", customer_data.contact_info[1].phone)>>

\* C10: in the ISP and Liskov variants the channel is fixed by the injected
\* notifier: with the SMS notifier, every process_payments call with valid
\* input invokes the notifier exactly once, on the phone channel, and never on
\* the email channel.
C10_SmsOncePerValidCall ==
    (DoneProcessPayments /\ svc.notify = "SMSNotify" /\ ValidRequest) =>
        sent = SmsToCustomer

\* ---------------------------------------------------------------- C11
\* the response the ISP executor makes of a rejected charge
IsFailedResponse(r) == r # NoneObj /\ r[1].amount = 0 /\ r[1].id = None

\* C11: in the ISP variant, when the gateway rejects the charge and the
\* executor returns the failed response (amount 0), process_payments still runs
\* the remaining stages: the notifier sends the confirmation exactly once, the
\* logger appends exactly one record for the call whose first line carries the
\* requested amount and not the response's amount 0, and only then is the
\* failed response returned.
C11_RejectedChargeStillNotifiesAndLogs ==
    (op = "process_payments" /\ svc.variant = "isp" /\ ChargeRejected) =>
        /\ IsFailedResponse(charge)
        /\ IsPrefix(stages, Pipeline)
        /\ IsPrefix(logAtCall, log)
        /\ Len(sent) = (IF "notify" \in StageSet THEN 1 ELSE 0)
        /\ Len(NewLines) = (IF "log" \in StageSet THEN 3 ELSE 0)
        /\ "log" \in StageSet =>
              /\ "notify" \in StageSet
              /\ NewLines[1] = Line("paid", customer_data.name, payment_data.amount)
              /\ NewLines[1].num # charge[1].amount
        /\ result.kind # "raised"
        /\ pc = "done" =>
              /\ stages = Pipeline
              /\ result = Returned(charge)

\* the ISP service has notified, logged the requested 500 and returned the
\* failed response of a rejected charge
C11_Witness ==
    /\ DoneProcessPayments
    /\ svc.variant = "isp"
    /\ ChargeRejected
    /\ payment_data.amount = 500
    /\ Len(sent) = 1
    /\ NewLines[1].num = 500
    /\ result.kind = "returned"
    /\ result.value[1].amount = 0

====
